---------------------------- MODULE Spec2Model ----------------------------
(***************************************************************************)
(* Model of the Catsu client (src/main.py): a CAT-protocol client for the  *)
(* Yaesu FT-991a.  Every public operation builds ASCII frames, opens a     *)
(* fresh serial connection per frame (`with serial.Serial() as ser`),      *)
(* writes the frame and, for the reading operations, reads the reply.      *)
(*                                                                         *)
(* Python strings are modelled as sequences of one-character strings.      *)
(* The serial transport is the environment: open, write and read may fail, *)
(* and the reply stream is chosen by the radio.  A read on a port with no  *)
(* pending byte blocks (Serial() is constructed with timeout=None).        *)
(***************************************************************************)
EXTENDS Integers, Sequences, FiniteSets, TLC

(***************************************************************************)
(* Bounds of the model                                                     *)
(***************************************************************************)
\* longest reply stream enumerated exhaustively over ReplyAlphabet
MaxReplyLen == 3

(***************************************************************************)
(* Python string primitives                                                *)
(***************************************************************************)
Digits == <<"0", "1", "2", "3", "4", "5", "6", "7", "8", "9">>

DigitChar(d) == Digits[d + 1]

IsDigit(c) == \E i \in 1..10 : Digits[i] = c

DigitVal(c) == (CHOOSE i \in 1..10 : Digits[i] = c) - 1

Min(a, b) == IF a < b THEN a ELSE b

Max(a, b) == IF a > b THEN a ELSE b

Zeros(k) == [i \in 1..k |-> "0"]

RECURSIVE DecDigits(_)
DecDigits(n) ==
    IF n < 10 THEN <<DigitChar(n)>>
    ELSE DecDigits(n \div 10) \o <<DigitChar(n % 10)>>

\* str(int): a leading "-" for negative numbers, no padding
str(n) == IF n < 0 THEN <<"-">> \o DecDigits(0 - n) ELSE DecDigits(n)

\* str.zfill(width): pads after a leading sign, never truncates
zfill(s, width) ==
    IF Len(s) >= width THEN s
    ELSE IF Len(s) > 0 /\ s[1] \in {"+", "-"}
         THEN <<s[1]>> \o Zeros(width - Len(s)) \o Tail(s)
         ELSE Zeros(width - Len(s)) \o s

\* a slice bound, clipped the way Python clips it
SliceIndex(k, n) == IF k < 0 THEN Max(k + n, 0) ELSE Min(k, n)

\* s[i:j]
Slice(s, i, j) ==
    LET a == SliceIndex(i, Len(s))
        b == SliceIndex(j, Len(s))
    IN  IF a >= b THEN <<>> ELSE SubSeq(s, a + 1, b)

\* s[i:]
SliceFrom(s, i) == Slice(s, i, Len(s))

\* int(str) succeeds: optional sign followed by at least one digit
IsIntLiteral(s) ==
    LET body == IF Len(s) > 0 /\ s[1] \in {"+", "-"} THEN Tail(s) ELSE s
    IN  Len(body) > 0 /\ \A i \in 1..Len(body) : IsDigit(body[i])

RECURSIVE DigitsValue(_)
DigitsValue(s) ==
    IF s = <<>> THEN 0
    ELSE 10 * DigitsValue(SubSeq(s, 1, Len(s) - 1)) + DigitVal(s[Len(s)])

\* int(str) for a string accepted by IsIntLiteral
int(s) ==
    IF s[1] = "-" THEN 0 - DigitsValue(Tail(s))
    ELSE IF s[1] = "+" THEN DigitsValue(Tail(s))
    ELSE DigitsValue(s)

Terminator == ";"


(***************************************************************************)
(* Catsu.__init__: the lookup table of operating modes                     *)
(***************************************************************************)
modes_dict ==
    ("LSB" :> "1") @@ ("USB" :> "2") @@ ("CW-U" :> "3") @@ ("FM" :> "4") @@
    ("AM" :> "5") @@ ("RTTY-LSB" :> "6") @@ ("CW-L" :> "7") @@
    ("DATA-LSB" :> "8") @@ ("RTTY-USB" :> "9") @@ ("DATA-FM" :> "A") @@
    ("FM-N" :> "B") @@ ("DATA-USB" :> "C") @@ ("AM-N" :> "D") @@
    ("C4FM" :> "E")

\* set_display_colour: its local table
display_colour_dict ==
    ("BLUE" :> "0") @@ ("GRAY" :> "1") @@ ("GREEN" :> "2") @@
    ("ORANGE" :> "3") @@ ("PURPLE" :> "4") @@ ("RED" :> "5") @@
    ("SKY BLUE" :> "6")

(***************************************************************************)
(* Frames built by the operations                                          *)
(***************************************************************************)
\* variant: cmd[-1] is evaluated but its value is not asserted
send_command_check_noassert(cmd) ==
    IF cmd = <<>> THEN "IndexError" ELSE "ok"

\* send_command's check of the terminator: cmd[-1] raises IndexError on the
\* empty string, the assert raises AssertionError on any other last character
send_command_check(cmd) ==
    IF cmd = <<>> THEN "IndexError"
    ELSE IF cmd[Len(cmd)] = Terminator THEN "ok"
    ELSE "AssertionError"

\* set_frequency_hz_vfo_a/b: assert len(str(setFreqHz)) <= 9
frequency_ok(setFreqHz) == Len(str(setFreqHz)) <= 9

\* variant: the zfill(9) is left out
frequency_cmd_unpadded(vfo, setFreqHz) ==
    <<"F", vfo>> \o str(setFreqHz) \o <<";">>

\* f"FA{str(setFreqHz).zfill(9)};" and its FB twin
frequency_cmd(vfo, setFreqHz) ==
    <<"F", vfo>> \o zfill(str(setFreqHz), 9) \o <<";">>

\* variant: the lower limit is off by one
channel_ok_from_zero(channelNumber) ==
    (channelNumber >= 0) /\ (channelNumber <= 117)

\* set_current_memory_channel: assert (channelNumber >= 1) and (channelNumber <= 117)
channel_ok(channelNumber) ==
    (channelNumber >= 1) /\ (channelNumber <= 117)

\* f"MC{str(channelNumber).zfill(3)};"
channel_cmd(channelNumber) ==
    <<"M", "C">> \o zfill(str(channelNumber), 3) \o <<";">>

\* f"MR{str(memoryChannel).zfill(3)};"
memory_read_cmd(memoryChannel) ==
    <<"M", "R">> \o zfill(str(memoryChannel), 3) \o <<";">>

\* f"MD0{self.modes_dict[mode]};"
mode_cmd(mode) == <<"M", "D", "0", modes_dict[mode], ";">>

\* f"EX006{display_colour_dict[colour]};"
colour_cmd(colour) ==
    <<"E", "X", "0", "0", "6", display_colour_dict[colour], ";">>

\* strftime("%Y%m%d") and strftime("%H%M%S") of a clock reading
strftime_date(d) ==
    zfill(str(d.year), 4) \o zfill(str(d.month), 2) \o zfill(str(d.day), 2)

strftime_time(t) ==
    zfill(str(t.hour), 2) \o zfill(str(t.minute), 2) \o zfill(str(t.second), 2)

Send(cmd) == [kind |-> "send", cmd |-> cmd]

Read(cmd) == [kind |-> "read", cmd |-> cmd]

Read12(cmd) == [kind |-> "read12", cmd |-> cmd]

\* variant: the time is sent before the date
set_date_and_time_calls_reordered(d, t) ==
    << Send(<<"D", "T", "1">> \o strftime_time(t) \o <<";">>),
       Send(<<"D", "T", "0">> \o strftime_date(d) \o <<";">>),
       Send(<<"D", "T", "2", "+", "0", "0", "0", "0", ";">>) >>

\* set_date_and_time: the three send_command calls, in program order
set_date_and_time_calls(d, t) ==
    << Send(<<"D", "T", "0">> \o strftime_date(d) \o <<";">>),
       Send(<<"D", "T", "1">> \o strftime_time(t) \o <<";">>),
       Send(<<"D", "T", "2", "+", "0", "0", "0", "0", ";">>) >>

\* variant: the channel is read without being selected first
read_memory_channel_calls_noselect(memoryChannel) ==
    << Read(memory_read_cmd(memoryChannel)) >>

\* read_memory_channel: set_current_memory_channel's send, then read_cmd
read_memory_channel_calls(memoryChannel) ==
    << Send(channel_cmd(memoryChannel)),
       Read(memory_read_cmd(memoryChannel)) >>

\* read_date_and_time: three read_cmd calls
read_date_and_time_calls ==
    << Read(<<"D", "T", "0", ";">>),
       Read(<<"D", "T", "1", ";">>),
       Read(<<"D", "T", "2", ";">>) >>

(***************************************************************************)
(* Decoding of replies                                                     *)
(***************************************************************************)
\* variant: res[2:] in place of res[2:-1]
split_response_keeps_terminator(res) ==
    [command |-> Slice(res, 0, 2), parameter |-> SliceFrom(res, 2)]

\* read_cmd: res[:2] and res[2:-1]
split_response(res) ==
    [command |-> Slice(res, 0, 2), parameter |-> Slice(res, 2, -1)]

None == [tag |-> "None"]

Value(v) == [tag |-> "value", val |-> v]

Returned(v) == [status |-> "returned", err |-> "", ret |-> v]

Raised(e) == [status |-> "raised", err |-> e, ret |-> None]

NoOutcome == [status |-> "none", err |-> "", ret |-> None]

memory_record(result) ==
    [memory_channel |-> Slice(result, 0, 3),
     vfo_a_frequency_hz |-> Slice(result, 3, 12),
     clarifier_direction |-> Slice(result, 12, 17),
     rx_clar_status |-> Slice(result, 17, 18),
     tx_clar_status |-> Slice(result, 18, 19),
     mode |-> Slice(result, 19, 20),
     vfo_or_memory |-> Slice(result, 20, 21),
     ctcss_dcs |-> Slice(result, 21, 22),
     nothing |-> Slice(result, 22, 24),
     simplex_or_plus_or_minus_shift |-> result[25]]

\* variant: the decode without its try/except
decode_memory_channel_unguarded(result) ==
    IF Len(result) >= 25 THEN Returned(Value(memory_record(result)))
    ELSE Raised("IndexError")

\* read_memory_channel's try block: result[24] raises IndexError on a short
\* parameter, the bare except swallows it and the method returns None
decode_memory_channel(result) ==
    IF Len(result) >= 25 THEN Returned(Value(memory_record(result)))
    ELSE Returned(None)

\* int(...) of a decoded field: ValueError unless it is an integer literal
to_int(s) ==
    IF IsIntLiteral(s) THEN Returned(Value(int(s))) ELSE Raised("ValueError")

(***************************************************************************)
(* Inputs of the operations and behaviour of the environment               *)
(***************************************************************************)
\* longest raw command handed to send_command / read_cmd
MaxCmdLen == 3

\* how far outside 1..117 the channel numbers tried reach
ChannelMargin == 3

SeqsUpTo(S, n) == UNION {[1..k -> S] : k \in 0..n}

RECURSIVE Pow10(_)
Pow10(k) == IF k = 0 THEN 1 ELSE 10 * Pow10(k - 1)

\* raw command strings: with, without and with a misplaced terminator
RawCommands == SeqsUpTo({"A", ";"}, MaxCmdLen)

\* frequencies: every digit-count boundary up to 10 digits, some ordinary
\* values, and negative numbers of 2, 9 and 10 characters
HzInputs ==
    {Pow10(k) : k \in 0..9} \cup {Pow10(k) - 1 : k \in 1..9}
        \cup {7127000, 14250000, 145500000, 2147483647}
        \cup {-1, -5, -12345678, -99999999, -100000000, -123456789}

ChannelInputs == (0 - ChannelMargin)..(117 + ChannelMargin)

VfoInputs == {"A", "B", "C"}

ModeInputs == DOMAIN modes_dict \cup {"SSB"}

ColourInputs == DOMAIN display_colour_dict \cup {"PINK"}

\* readings of datetime.now(datetime.timezone.utc)
Dates == [year : {1999, 2026}, month : {1, 12}, day : {1, 31}]

Times == [hour : {0, 23}, minute : {0, 59}, second : {0, 59}]

ReplyAlphabet == {"M", "1", ";"}

\* a programmed memory channel: MR + 25-character parameter + terminator
MemoryReply ==
    <<"M", "R", "0", "0", "1", "0", "1", "4", "2", "5", "0", "0", "0", "0",
      "+", "0", "0", "0", "0", "0", "0", "4", "0", "0", "0", "0", "0", ";">>

\* replies too long to enumerate: a full memory record, one a character
\* short, one a character long, one cut before its terminator, and the
\* replies to FA; MC; and DT0;
LongReplies ==
    { MemoryReply,
      SubSeq(MemoryReply, 1, 26) \o <<";">>,
      SubSeq(MemoryReply, 1, 27) \o <<"1", ";">>,
      SubSeq(MemoryReply, 1, 27),
      <<"F", "A", "0", "1", "4", "2", "5", "0", "0", "0", "0", ";">>,
      <<"F", "A", "0", "1", "4", "2", "5", "M", "0", "0", "0", ";">>,
      <<"M", "C", "0", "0", "1", ";">>,
      <<"D", "T", "0", "2", "0", "2", "6", "1", "1", "0", "6", ";", "M">> }

\* what the radio may put on the line after a command: any short stream,
\* with or without a terminator, or one of the long replies
Replies == SeqsUpTo(ReplyAlphabet, MaxReplyLen) \cup LongReplies

(***************************************************************************)
(* State                                                                   *)
(***************************************************************************)
VARIABLES
    pc,       \* "idle", where the running operation stands, or "done"
    op,       \* the public operation called last: its name and argument
    plan,     \* the transport calls the operation makes, in program order
    step,     \* index in plan of the call being made
    nopen,    \* number of serial connections currently open
    trace,    \* what the transport saw during the operation
    reply,    \* the stream the radio sent after the last written command
    rx,       \* the part of reply not yet read
    res,      \* read_cmd's res / read_vfo_frequency's res
    rets,     \* values returned by the completed reading calls
    outcome   \* how the operation ended: returned a value or raised

vars == <<pc, op, plan, step, nopen, trace, reply, rx, res, rets, outcome>>

Event(e, f) == [ev |-> e, frame |-> f]

Init ==
    /\ pc = "idle"
    /\ op = [name |-> "none", arg |-> <<>>]
    /\ plan = <<>>
    /\ step = 1
    /\ nopen = 0
    /\ trace = <<>>
    /\ reply = <<>>
    /\ rx = <<>>
    /\ res = <<>>
    /\ rets = <<>>
    /\ outcome = NoOutcome

\* variant: the port is used without the with-statement and never closed
exit_with_leak(n) == n

\* leaving `with serial.Serial() as ser` with the port open: __exit__ closes
exit_with(n) == n - 1

\* the public operation is entered and its transport calls are laid out
Begin(name, arg, calls) ==
    /\ pc = "idle"
    /\ op' = [name |-> name, arg |-> arg]
    /\ plan' = calls
    /\ step' = 1
    /\ pc' = "call"
    /\ trace' = <<>>
    /\ reply' = <<>>
    /\ rx' = <<>>
    /\ res' = <<>>
    /\ rets' = <<>>
    /\ outcome' = NoOutcome
    /\ UNCHANGED nopen

\* the public operation raises before it makes any transport call
Reject(name, arg, e) ==
    /\ pc = "idle"
    /\ op' = [name |-> name, arg |-> arg]
    /\ plan' = <<>>
    /\ step' = 1
    /\ pc' = "done"
    /\ trace' = <<>>
    /\ reply' = <<>>
    /\ rx' = <<>>
    /\ res' = <<>>
    /\ rets' = <<>>
    /\ outcome' = Raised(e)
    /\ UNCHANGED nopen

SendOps ==
    {"send_command", "set_frequency_hz_vfo_a", "set_frequency_hz_vfo_b",
     "set_current_memory_channel", "vfo_a_to_memory_channel",
     "set_operating_mode", "set_display_colour", "set_date_and_time"}

\* what the public operation does with the values its reading calls returned
finish(o, rs) ==
    CASE o.name \in SendOps -> Returned(None)
      [] o.name = "read_cmd" -> Returned(Value(rs[1]))
      [] o.name = "read_vfo_frequency" -> to_int(Slice(rs[1], 2, -1))
      [] o.name = "get_current_memory_channel" -> to_int(rs[1].parameter)
      [] o.name = "read_memory_channel" -> decode_memory_channel(rs[1].parameter)
      [] o.name = "read_date_and_time" ->
            Returned(Value([date |-> SliceFrom(rs[1].parameter, 1),
                            time |-> SliceFrom(rs[2].parameter, 1),
                            timezone |-> SliceFrom(rs[3].parameter, 1)]))

\* a transport call returned: go on to the next one, or finish the operation
Advance(rs) ==
    IF step < Len(plan)
    THEN pc' = "call" /\ step' = step + 1 /\ outcome' = outcome
    ELSE pc' = "done" /\ step' = step /\ outcome' = finish(op, rs)

\* an exception leaves the operation: nothing in the call chain catches it
Raise(e) == pc' = "done" /\ step' = step /\ outcome' = Raised(e)

\* the value or the exception reaches the caller; the client keeps nothing
\* of the call (it holds only port, baud and modes_dict)
caller_resumes ==
    /\ pc = "done"
    /\ pc' = "idle"
    /\ op' = [name |-> "none", arg |-> <<>>]
    /\ plan' = <<>>
    /\ step' = 1
    /\ trace' = <<>>
    /\ reply' = <<>>
    /\ rx' = <<>>
    /\ res' = <<>>
    /\ rets' = <<>>
    /\ outcome' = NoOutcome
    /\ UNCHANGED nopen

(***************************************************************************)
(* The public operations: argument checks and the frames they build        *)
(***************************************************************************)
send_command ==
    /\ pc = "idle"
    /\ \E cmd \in RawCommands : Begin("send_command", cmd, <<Send(cmd)>>)

read_cmd ==
    /\ pc = "idle"
    /\ \E cmd \in RawCommands : Begin("read_cmd", cmd, <<Read(cmd)>>)

read_vfo_frequency ==
    /\ pc = "idle"
    /\ \E vfo \in VfoInputs :
           IF vfo = "A"
           THEN Begin("read_vfo_frequency", vfo, <<Read12(<<"F", "A", ";">>)>>)
           ELSE IF vfo = "B"
           THEN Begin("read_vfo_frequency", vfo, <<Read12(<<"F", "B", ";">>)>>)
           ELSE Reject("read_vfo_frequency", vfo, "Exception")

set_frequency_hz_vfo_a ==
    /\ pc = "idle"
    /\ \E setFreqHz \in HzInputs :
           IF frequency_ok(setFreqHz)
           THEN Begin("set_frequency_hz_vfo_a", setFreqHz,
                      <<Send(frequency_cmd("A", setFreqHz))>>)
           ELSE Reject("set_frequency_hz_vfo_a", setFreqHz, "AssertionError")

set_frequency_hz_vfo_b ==
    /\ pc = "idle"
    /\ \E setFreqHz \in HzInputs :
           IF frequency_ok(setFreqHz)
           THEN Begin("set_frequency_hz_vfo_b", setFreqHz,
                      <<Send(frequency_cmd("B", setFreqHz))>>)
           ELSE Reject("set_frequency_hz_vfo_b", setFreqHz, "AssertionError")

get_current_memory_channel ==
    /\ pc = "idle"
    /\ Begin("get_current_memory_channel", <<>>, <<Read(<<"M", "C", ";">>)>>)

set_current_memory_channel ==
    /\ pc = "idle"
    /\ \E channelNumber \in ChannelInputs :
           IF channel_ok(channelNumber)
           THEN Begin("set_current_memory_channel", channelNumber,
                      <<Send(channel_cmd(channelNumber))>>)
           ELSE Reject("set_current_memory_channel", channelNumber,
                       "AssertionError")

vfo_a_to_memory_channel ==
    /\ pc = "idle"
    /\ Begin("vfo_a_to_memory_channel", <<>>, <<Send(<<"A", "M", ";">>)>>)

set_operating_mode ==
    /\ pc = "idle"
    /\ \E mode \in ModeInputs :
           IF mode \in DOMAIN modes_dict
           THEN Begin("set_operating_mode", mode, <<Send(mode_cmd(mode))>>)
           ELSE Reject("set_operating_mode", mode, "AssertionError")

\* the range assert is set_current_memory_channel's, reached before any I/O
read_memory_channel ==
    /\ pc = "idle"
    /\ \E memoryChannel \in ChannelInputs :
           IF channel_ok(memoryChannel)
           THEN Begin("read_memory_channel", memoryChannel,
                      read_memory_channel_calls(memoryChannel))
           ELSE Reject("read_memory_channel", memoryChannel, "AssertionError")

set_display_colour ==
    /\ pc = "idle"
    /\ \E colour \in ColourInputs :
           IF colour \in DOMAIN display_colour_dict
           THEN Begin("set_display_colour", colour, <<Send(colour_cmd(colour))>>)
           ELSE Reject("set_display_colour", colour, "KeyError")

read_date_and_time ==
    /\ pc = "idle"
    /\ Begin("read_date_and_time", <<>>, read_date_and_time_calls)

\* datetime.now() is read twice: the date and the time are separate readings
set_date_and_time ==
    /\ pc = "idle"
    /\ \E d \in Dates, t \in Times :
           Begin("set_date_and_time", <<d, t>>, set_date_and_time_calls(d, t))

(***************************************************************************)
(* send_command: check, open, write, close                                 *)
(***************************************************************************)
send_command_open ==
    /\ pc = "call"
    /\ plan[step].kind = "send"
    /\ LET chk == send_command_check(plan[step].cmd)
       IN  IF chk # "ok"
           THEN Raise(chk) /\ UNCHANGED <<nopen, trace>>
           ELSE \/ /\ pc' = "write"
                   /\ nopen' = nopen + 1
                   /\ trace' = Append(trace, Event("open", <<>>))
                   /\ UNCHANGED <<step, outcome>>
                \/ /\ Raise("SerialException")
                   /\ trace' = Append(trace, Event("open_failed", <<>>))
                   /\ UNCHANGED nopen
    /\ UNCHANGED <<op, plan, reply, rx, res, rets>>

send_command_write ==
    /\ pc = "write"
    /\ plan[step].kind = "send"
    /\ nopen' = exit_with(nopen)
    /\ \/ /\ trace' = trace \o <<Event("write", plan[step].cmd),
                                 Event("close", <<>>)>>
          /\ Advance(rets)
       \/ /\ trace' = trace \o <<Event("write_failed", plan[step].cmd),
                                 Event("close", <<>>)>>
          /\ Raise("SerialException")
    /\ UNCHANGED <<op, plan, reply, rx, res, rets>>

(***************************************************************************)
(* read_cmd: open, write, read byte by byte up to the terminator, close    *)
(***************************************************************************)
read_cmd_open ==
    /\ pc = "call"
    /\ plan[step].kind = "read"
    /\ \/ /\ pc' = "write"
          /\ nopen' = nopen + 1
          /\ trace' = Append(trace, Event("open", <<>>))
          /\ UNCHANGED <<step, outcome>>
       \/ /\ Raise("SerialException")
          /\ trace' = Append(trace, Event("open_failed", <<>>))
          /\ UNCHANGED nopen
    /\ res' = <<>>
    /\ UNCHANGED <<op, plan, reply, rx, rets>>

read_cmd_write ==
    /\ pc = "write"
    /\ plan[step].kind = "read"
    /\ \/ /\ trace' = Append(trace, Event("write", plan[step].cmd))
          /\ \E stream \in Replies : reply' = stream /\ rx' = stream
          /\ pc' = "read"
          /\ UNCHANGED <<nopen, step, outcome>>
       \/ /\ trace' = trace \o <<Event("write_failed", plan[step].cmd),
                                 Event("close", <<>>)>>
          /\ nopen' = exit_with(nopen)
          /\ Raise("SerialException")
          /\ UNCHANGED <<reply, rx>>
    /\ UNCHANGED <<op, plan, res, rets>>

\* one pass of `while r != ";"`; ser.read() blocks while nothing is pending
read_cmd_read ==
    /\ pc = "read"
    /\ rx # <<>>
    /\ res' = Append(res, Head(rx))
    /\ rx' = Tail(rx)
    /\ IF Head(rx) = Terminator
       THEN /\ rets' = Append(rets, split_response(res'))
            /\ nopen' = exit_with(nopen)
            /\ trace' = Append(trace, Event("close", <<>>))
            /\ Advance(rets')
       ELSE UNCHANGED <<pc, step, outcome, rets, nopen, trace>>
    /\ UNCHANGED <<op, plan, reply>>

\* ser.read() raises (the port is disconnected) instead of returning a byte
read_cmd_read_fails ==
    /\ pc = "read"
    /\ nopen' = exit_with(nopen)
    /\ trace' = trace \o <<Event("read_failed", <<>>), Event("close", <<>>)>>
    /\ Raise("SerialException")
    /\ UNCHANGED <<op, plan, reply, rx, res, rets>>

(***************************************************************************)
(* read_vfo_frequency: open, write, one read of 12 bytes, close            *)
(***************************************************************************)
read_vfo_frequency_open ==
    /\ pc = "call"
    /\ plan[step].kind = "read12"
    /\ \/ /\ pc' = "write"
          /\ nopen' = nopen + 1
          /\ trace' = Append(trace, Event("open", <<>>))
          /\ UNCHANGED <<step, outcome>>
       \/ /\ Raise("SerialException")
          /\ trace' = Append(trace, Event("open_failed", <<>>))
          /\ UNCHANGED nopen
    /\ UNCHANGED <<op, plan, reply, rx, res, rets>>

read_vfo_frequency_write ==
    /\ pc = "write"
    /\ plan[step].kind = "read12"
    /\ \/ /\ trace' = Append(trace, Event("write", plan[step].cmd))
          /\ \E stream \in Replies : reply' = stream /\ rx' = stream
          /\ pc' = "read12"
          /\ UNCHANGED <<nopen, step, outcome>>
       \/ /\ trace' = trace \o <<Event("write_failed", plan[step].cmd),
                                 Event("close", <<>>)>>
          /\ nopen' = exit_with(nopen)
          /\ Raise("SerialException")
          /\ UNCHANGED <<reply, rx>>
    /\ UNCHANGED <<op, plan, res, rets>>

\* ser.read(12) returns once 12 bytes are there (no timeout is configured)
read_vfo_frequency_read ==
    /\ pc = "read12"
    /\ nopen' = exit_with(nopen)
    /\ \/ /\ Len(rx) >= 12
          /\ res' = SubSeq(rx, 1, 12)
          /\ rx' = SubSeq(rx, 13, Len(rx))
          /\ rets' = Append(rets, res')
          /\ trace' = Append(trace, Event("close", <<>>))
          /\ Advance(rets')
       \/ /\ trace' = trace \o <<Event("read_failed", <<>>),
                                 Event("close", <<>>)>>
          /\ Raise("SerialException")
          /\ UNCHANGED <<rx, res, rets>>
    /\ UNCHANGED <<op, plan, reply>>

(***************************************************************************)
(* Specifications                                                          *)
(***************************************************************************)
Next ==
    \/ send_command
    \/ read_cmd
    \/ read_vfo_frequency
    \/ set_frequency_hz_vfo_a
    \/ set_frequency_hz_vfo_b
    \/ get_current_memory_channel
    \/ set_current_memory_channel
    \/ vfo_a_to_memory_channel
    \/ set_operating_mode
    \/ read_memory_channel
    \/ set_display_colour
    \/ read_date_and_time
    \/ set_date_and_time
    \/ send_command_open
    \/ send_command_write
    \/ read_cmd_open
    \/ read_cmd_write
    \/ read_cmd_read
    \/ read_cmd_read_fails
    \/ read_vfo_frequency_open
    \/ read_vfo_frequency_write
    \/ read_vfo_frequency_read
    \/ caller_resumes

Spec == Init /\ [][Next]_vars

\* the client is one sequential program: once an operation is called, each
\* of its steps that can run does run.  Nothing obliges the caller to call
\* again, the transport to fail, or the radio to send more than it sent.
ProgramStep ==
    \/ send_command_open
    \/ send_command_write
    \/ read_cmd_open
    \/ read_cmd_write
    \/ read_cmd_read
    \/ read_vfo_frequency_open
    \/ read_vfo_frequency_write

FairSpec == Spec /\ WF_vars(ProgramStep)

(***************************************************************************)
(* Vocabulary of the properties                                            *)
(***************************************************************************)
IsWrite(e) == e.ev = "write"

\* the frames the transport accepted during the operation, in order
Writes ==
    LET w == SelectSeq(trace, IsWrite)
    IN  [i \in 1..Len(w) |-> w[i].frame]

IsPrefix(s, t) == Len(s) <= Len(t) /\ s = SubSeq(t, 1, Len(s))

HasPrefix(f, p) == Len(f) >= Len(p) /\ SubSeq(f, 1, Len(p)) = p

AllDigits(s) == \A i \in 1..Len(s) : IsDigit(s[i])

TransportFailed ==
    \E i \in 1..Len(trace) :
        trace[i].ev \in {"open_failed", "write_failed", "read_failed"}

\* position of the first terminator of a stream, 0 when it has none
FirstTerminator(s) ==
    IF \E i \in 1..Len(s) : s[i] = ";"
    THEN CHOOSE i \in 1..Len(s) : s[i] = ";" /\ \A j \in 1..(i - 1) : s[j] # ";"
    ELSE 0

Finished == pc = "done"

SetFrequencyOps == {"set_frequency_hz_vfo_a", "set_frequency_hz_vfo_b"}

\* f is <prefix> + exactly `width` decimal digits of value n + ";"
IsNumericFrame(f, prefix, width, n) ==
    /\ Len(f) = Len(prefix) + width + 1
    /\ HasPrefix(f, prefix)
    /\ f[Len(f)] = ";"
    /\ AllDigits(SubSeq(f, Len(prefix) + 1, Len(prefix) + width))
    /\ DigitsValue(SubSeq(f, Len(prefix) + 1, Len(prefix) + width)) = n

(***************************************************************************)
(* C1: send_command on a command that does not end with ";" (the empty     *)
(* string included) raises before any transport call: no connection is     *)
(* opened, no open is attempted and nothing is written.                    *)
(***************************************************************************)
C1_MissingTerminatorNoTransport ==
    (op.name = "send_command"
        /\ (op.arg = <<>> \/ op.arg[Len(op.arg)] # ";"))
    => /\ trace = <<>>
       /\ nopen = 0
       /\ pc \in {"call", "done"}
       /\ Finished => outcome.status = "raised"

C1_Witness ==
    /\ Finished
    /\ op.name = "send_command"
    /\ op.arg = <<"A", ";", "A">>
    /\ outcome = Raised("AssertionError")
    /\ trace = <<>>

(***************************************************************************)
(* C2: for 0 <= h <= 999999999 the set-frequency operations write exactly  *)
(* one frame, FA (or FB) + h zero-padded to 9 digits + ";", 12 characters. *)
(***************************************************************************)
C2_FrequencyFrame ==
    (op.name \in SetFrequencyOps /\ op.arg >= 0 /\ op.arg <= 999999999)
    => LET vfo == IF op.name = "set_frequency_hz_vfo_a" THEN "A" ELSE "B"
       IN  /\ Len(plan) = 1
           /\ Len(plan[1].cmd) = 12
           /\ IsNumericFrame(plan[1].cmd, <<"F", vfo>>, 9, op.arg)
           /\ IsPrefix(Writes, <<plan[1].cmd>>)
           /\ (Finished /\ outcome.status = "returned")
                 => Writes = <<plan[1].cmd>>
           /\ (Finished /\ outcome.status = "raised") => TransportFailed

C2_Witness ==
    /\ Finished
    /\ op.name = "set_frequency_hz_vfo_b"
    /\ op.arg = 7127000
    /\ outcome.status = "returned"
    /\ Writes = << <<"F", "B", "0", "0", "7", "1", "2", "7", "0", "0", "0", ";">> >>

(***************************************************************************)
(* C3: for hz negative or of more than 9 digits the set-frequency          *)
(* operations raise and write nothing; no frame with a "-" is ever sent.   *)
(***************************************************************************)
C3_InvalidFrequencyRejected ==
    (op.name \in SetFrequencyOps /\ (op.arg < 0 \/ op.arg > 999999999))
    => /\ Writes = <<>>
       /\ Finished => outcome.status = "raised"

(***************************************************************************)
(* C4: set_current_memory_channel accepts exactly 1 <= n <= 117: for these *)
(* it writes the single frame MC + n zero-padded to 3 digits + ";"; for    *)
(* any other integer it raises without opening a connection or writing.    *)
(***************************************************************************)
C4_ChannelRange ==
    (op.name = "set_current_memory_channel")
    => IF op.arg >= 1 /\ op.arg <= 117
       THEN /\ Len(plan) = 1
            /\ IsNumericFrame(plan[1].cmd, <<"M", "C">>, 3, op.arg)
            /\ IsPrefix(Writes, <<plan[1].cmd>>)
            /\ (Finished /\ outcome.status = "returned")
                  => Writes = <<plan[1].cmd>>
            /\ (Finished /\ outcome.status = "raised") => TransportFailed
       ELSE /\ Finished
            /\ outcome.status = "raised"
            /\ trace = <<>>
            /\ nopen = 0

C4_Witness ==
    /\ Finished
    /\ op.name = "set_current_memory_channel"
    /\ op.arg = 117
    /\ outcome.status = "returned"
    /\ Writes = << <<"M", "C", "1", "1", "7", ";">> >>

(***************************************************************************)
(* C5: read_cmd always terminates: once it is reading, it eventually       *)
(* returns or raises, also when the transport never yields a terminator.   *)
(***************************************************************************)
C5_ReadCmdTerminates == (pc = "read") ~> Finished

(***************************************************************************)
(* C6: at most one connection is open at any moment, and none is open      *)
(* outside the open..close span of one transport call: not between two     *)
(* calls of an operation, not when the operation has returned or raised    *)
(* (whether the open, the write or the read failed), not between two       *)
(* operations.  Every open is followed by its close.                       *)
(***************************************************************************)
C6_ConnectionScoped ==
    /\ nopen \in {0, 1}
    /\ pc \in {"idle", "call", "done"} => nopen = 0
    /\ pc \in {"write", "read", "read12"} => nopen = 1
    /\ pc \in {"call", "done"} =>
          /\ Cardinality({i \in 1..Len(trace) : trace[i].ev = "open"})
                = Cardinality({i \in 1..Len(trace) : trace[i].ev = "close"})
          /\ \A i \in 1..Len(trace) :
                 trace[i].ev = "open" =>
                     \E j \in (i + 1)..Len(trace) :
                         /\ trace[j].ev = "close"
                         /\ \A k \in (i + 1)..(j - 1) : trace[k].ev # "open"

C6_Witness ==
    /\ Finished
    /\ op.name = "read_date_and_time"
    /\ outcome = Raised("SerialException")
    /\ Len(trace) >= 2
    /\ trace[Len(trace) - 1].ev = "read_failed"
    /\ Len(rets) = 1
    /\ nopen = 0

(***************************************************************************)
(* C7: read_memory_channel keeps "channel not set" and "transport failure" *)
(* apart: a reply whose parameter is shorter than 25 characters makes it   *)
(* return None without raising; a failure to open, write or read makes it  *)
(* raise, and then None is not returned.                                   *)
(***************************************************************************)
C7_AbsentVersusFailure ==
    (op.name = "read_memory_channel" /\ Finished)
    => /\ TransportFailed => outcome = Raised("SerialException")
       /\ (~TransportFailed /\ FirstTerminator(reply) > 0
              /\ FirstTerminator(reply) - 3 < 25)
             => outcome = Returned(None)
       /\ outcome = Returned(None) =>
             ~TransportFailed /\ Len(Writes) = 2

C7_Witness ==
    /\ Finished
    /\ op.name = "read_memory_channel"
    /\ op.arg = 1
    /\ reply = SubSeq(MemoryReply, 1, 26) \o <<";">>
    /\ outcome = Returned(None)

(***************************************************************************)
(* C8: read_cmd consumes the reply one byte at a time up to and including  *)
(* the first ";" and no further; it returns the first 2 characters of that *)
(* frame as command and the characters after them, terminator excluded, as *)
(* parameter.  The parameter never holds a ";", also for frames of fewer   *)
(* than 3 characters.                                                      *)
(***************************************************************************)
C8_ReadCmdSplit ==
    /\ pc = "read" =>
          /\ res \o rx = reply
          /\ \A i \in 1..Len(res) : res[i] # ";"
    /\ (op.name = "read_cmd" /\ Finished /\ outcome.status = "returned")
       => LET k == FirstTerminator(reply)
              r == outcome.ret.val
          IN  /\ k > 0
              /\ res = SubSeq(reply, 1, k)
              /\ rx = SubSeq(reply, k + 1, Len(reply))
              /\ r.command = SubSeq(reply, 1, Min(2, k))
              /\ r.parameter = SubSeq(reply, 3, k - 1)
              /\ \A i \in 1..Len(r.parameter) : r.parameter[i] # ";"

C8_Witness ==
    /\ Finished
    /\ op.name = "read_cmd"
    /\ reply = <<"M", ";", "1">>
    /\ outcome.status = "returned"
    /\ outcome.ret.val = [command |-> <<"M", ";">>, parameter |-> <<>>]
    /\ rx = <<"1">>

(***************************************************************************)
(* C9: set_date_and_time sends DT0<8-digit date>; DT1<6-digit time>; and   *)
(* DT2+0000; in this order, each in its own open/write/close cycle.  When  *)
(* a send fails the earlier frames stay written, the later ones are never  *)
(* written, and the error reaches the caller.                              *)
(***************************************************************************)
C9_DateTimeSequence ==
    (op.name = "set_date_and_time")
    => LET d == op.arg[1]
           t == op.arg[2]
           frames == <<plan[1].cmd, plan[2].cmd, plan[3].cmd>>
       IN  /\ Len(plan) = 3
           /\ IsNumericFrame(plan[1].cmd, <<"D", "T", "0">>, 8,
                             d.year * 10000 + d.month * 100 + d.day)
           /\ IsNumericFrame(plan[2].cmd, <<"D", "T", "1">>, 6,
                             t.hour * 10000 + t.minute * 100 + t.second)
           /\ plan[3].cmd = <<"D", "T", "2", "+", "0", "0", "0", "0", ";">>
           /\ IsPrefix(Writes, frames)
           /\ \A i \in 1..Len(trace) :
                  trace[i].ev \in {"write", "write_failed"} =>
                      /\ i > 1 /\ trace[i - 1].ev = "open"
                      /\ i < Len(trace) /\ trace[i + 1].ev = "close"
           /\ (Finished /\ outcome.status = "returned") => Writes = frames
           /\ (Finished /\ outcome.status = "raised") =>
                  /\ TransportFailed
                  /\ Len(Writes) < 3
                  /\ Writes = SubSeq(frames, 1, step - 1)
                  /\ trace[Len(trace)].ev \in {"open_failed", "close"}

C9_Witness ==
    /\ Finished
    /\ op.name = "set_date_and_time"
    /\ outcome = Raised("SerialException")
    /\ Writes = << <<"D", "T", "0", "2", "0", "2", "6", "1", "2", "3", "1", ";">> >>
    /\ Len(trace) = 6
    /\ trace[5] = Event("write_failed",
                        <<"D", "T", "1", "2", "3", "5", "9", "0", "0", ";">>)

(***************************************************************************)
(* C10: read_memory_channel writes MC<3-digit n>; and closes that          *)
(* connection before it writes MR<3-digit n>; with the same n.  MR is      *)
(* never written unless the MC write completed: when the select step fails *)
(* (n outside 1..117, or the transport fails) the operation raises without *)
(* sending MR.                                                             *)
(***************************************************************************)
C10_SelectBeforeRead ==
    (op.name = "read_memory_channel")
    => /\ \A i \in 1..Len(trace) :
              (trace[i].ev \in {"write", "write_failed"}
                  /\ HasPrefix(trace[i].frame, <<"M", "R">>))
              => /\ IsNumericFrame(trace[i].frame, <<"M", "R">>, 3, op.arg)
                 /\ i = 5
                 /\ trace[1].ev = "open"
                 /\ trace[2].ev = "write"
                 /\ IsNumericFrame(trace[2].frame, <<"M", "C">>, 3, op.arg)
                 /\ trace[3].ev = "close"
                 /\ trace[4].ev = "open"
       /\ (Finished /\ (Writes = <<>> \/ ~HasPrefix(Writes[1], <<"M", "C">>)))
              => /\ outcome.status = "raised"
                 /\ \A i \in 1..Len(trace) :
                        ~HasPrefix(trace[i].frame, <<"M", "R">>)
       /\ (Finished /\ outcome.status = "returned") =>
              /\ Len(Writes) = 2
              /\ IsNumericFrame(Writes[1], <<"M", "C">>, 3, op.arg)
              /\ IsNumericFrame(Writes[2], <<"M", "R">>, 3, op.arg)

C10_Witness ==
    /\ Finished
    /\ op.name = "read_memory_channel"
    /\ op.arg = 117
    /\ outcome.status = "returned"
    /\ Writes = << <<"M", "C", "1", "1", "7", ";">>,
                   <<"M", "R", "1", "1", "7", ";">> >>
    /\ reply = MemoryReply

=============================================================================
